---- MODULE Spec2Model ----
(***************************************************************************)
(* A model of opendap.py: the coordinate resolvers get_depth / get_time,   *)
(* the window selector filter_dataset, and the __main__ pipeline (archive  *)
(* selection, fetch / filter / resample loop, concatenation, target        *)
(* lattice, elevation mask, interpolation, gap fill, masking, emission).   *)
(*                                                                         *)
(* Conventions.  Sequences are 1-based (Python index i is i+1 here).       *)
(* Depths are integers.  An element of a dataset's time axis is a          *)
(* numpy datetime64, modelled as the record [ns |-> n]; pd.to_datetime     *)
(* turns it into a Timestamp, modelled as the integer n, which is what a   *)
(* Python datetime (start_date, given_time) is compared with.  A grid      *)
(* value is a rational [nan, n, d] (n/d, d > 0) or NaN.                    *)
(***************************************************************************)
EXTENDS Integers, Sequences, FiniteSets, TLC

VARIABLES
    pc,          \* position of the running call / of the __main__ script
    raised,      \* "" or the place an exception was raised
    fn,          \* resolver entry point that is being called
    data_axis,   \* get_depth / get_time: data_depths / data_times
    given,       \* get_depth / get_time: given_depth / given_time
    value,       \* get_depth / get_time: <<>> or <<returned value>>
    parameter,   \* __main__: parameter
    variables,   \* filter_dataset / __main__: variables
    start_date,  \* filter_dataset / __main__: start_date
    stop_date,   \* filter_dataset / __main__: stop_date
    depth_min,   \* filter_dataset: depth_min
    depth_max,   \* filter_dataset: depth_max
    ds,          \* filter_dataset: the dataset's time and depth axes
    out,         \* filter_dataset: the returned dataset's axes
    notice,      \* filter_dataset: number of logger.warning calls
    nrt_date,    \* __main__: nrt_date, the catalog's cutover instant
    urls,        \* __main__: urls
    ds_list,     \* __main__: ds_list
    log,         \* __main__: the steps executed so far, in order
    saved,       \* __main__: number of fig.savefig calls made
    archive,     \* the time axis of the dataset behind each url
    all_ds,      \* __main__: all_ds (its time axis)
    grid,        \* __main__: all_ds (its longitude, latitude and one slice)
    new_lon,     \* __main__: new_lon
    new_lat,     \* __main__: new_lat
    resample_ds, \* __main__: resample_ds (one slice on the lattice)
    gmrt,        \* __main__: gmrt (axes and altitude)
    altitude     \* __main__: altitude, the boolean sea mask on the lattice

vars == <<pc, raised, fn, data_axis, given, value, parameter, variables,
          start_date, stop_date, depth_min, depth_max, ds, out, notice,
          nrt_date, urls, ds_list, log, saved, archive, all_ds,
          grid, new_lon, new_lat, resample_ds, gmrt, altitude>>

resolveVars == <<fn, data_axis, given, value>>
windowVars == <<depth_min, depth_max, ds, out, notice>>
runVars == <<parameter, variables, start_date, stop_date>>
mainVars == <<nrt_date, urls, ds_list, log, saved>>
mergeVars == <<archive, all_ds>>
gridVars == <<grid, new_lon, new_lat, resample_ds, gmrt, altitude>>

\* ------------------------------------------------------------------ bounds

\* Longest axis handed to a resolver.
MaxLen == 3

\* Largest axis coordinate handed to a resolver.
MaxVal == 3

\* Largest time coordinate of a dataset handed to filter_dataset.
MaxTime == 3

\* Largest depth coordinate of a dataset handed to filter_dataset.
MaxDepth == 2

\* Largest start_date, stop_date and nrt_date of a run of __main__.
MaxDate == 3

\* Largest number of time slices the emit loop of __main__ goes through.
MaxSlices == 2

\* Length of the resampling period ("1M": a month), in time units.
Period == 2

\* res_deg, the step of the target lattice, in coordinate units.
Res == 1

\* Largest longitude and latitude coordinate of a source grid.
MaxLon == 3
MaxLat == 3

\* Largest number of nodes (longitudes times latitudes) of a source grid.
MaxNodes == 6

\* Largest absolute altitude of a node of the elevation surface.
MaxAltitude == 1

\* ----------------------------------------------------------------- helpers

Abs(x) == IF x < 0 THEN -x ELSE x

SeqsUpTo(S, n) == UNION {[1..k -> S] : k \in 1..n}

Range(s) == {s[i] : i \in 1..Len(s)}

\* np.argmin: the index of the first occurrence of the minimum.
RECURSIVE ArgminFrom(_, _, _)
ArgminFrom(xs, i, best) ==
    IF i > Len(xs) THEN best
    ELSE ArgminFrom(xs, i + 1, IF xs[i] < xs[best] THEN i ELSE best)

argmin(xs) == ArgminFrom(xs, 2, 1)

\* pd.to_datetime on one datetime64 element: the Timestamp's integer value.
to_datetime(t) == t.ns

\* A datetime64 element from its integer value.
Dt64(n) == [ns |-> n]

\* ---------------------------------------------------------------- resolvers

\* get_depth with the absolute value left out.
get_depth_noabs(data_depths, given_depth) ==
    data_depths[argmin([i \in 1..Len(data_depths) |->
                           data_depths[i] - given_depth])]

get_depth(data_depths, given_depth) ==
    data_depths[argmin([i \in 1..Len(data_depths) |->
                           Abs(data_depths[i] - given_depth)])]

get_time(data_times, given_time) ==
    data_times[argmin([i \in 1..Len(data_times) |->
                          Abs(to_datetime(data_times[i]) - given_time)])]

\* ----------------------------------------------------------- filter_dataset

\* Number of elements of keys for which P holds.
CountIf(keys, P(_)) == Cardinality({i \in 1..Len(keys) : P(keys[i])})

\* A label slice that stops short of its upper bound.
SelSliceHalfOpen(axis, keys, lo, hi) ==
    LET lt_lo(k) == k < lo
        lt_hi(k) == k < hi
    IN  SubSeq(axis, CountIf(keys, lt_lo) + 1, CountIf(keys, lt_hi))

\* ds.sel(dim=slice(lo, hi)) on an increasing index: pandas locates the slice
\* with searchsorted(lo, side="left") and searchsorted(hi, side="right").
\* keys[i] is the comparable value of axis[i].
SelSlice(axis, keys, lo, hi) ==
    LET lt_lo(k) == k < lo
        le_hi(k) == k <= hi
    IN  SubSeq(axis, CountIf(keys, lt_lo) + 1, CountIf(keys, le_hi))

\* ds.sel(dim=label): the exact-match lookup of one label.
SelLabel(axis, label) ==
    LET same(c) == c = label
    IN  SelectSeq(axis, same)

Timestamps(data_times) ==
    [i \in 1..Len(data_times) |-> to_datetime(data_times[i])]

\* set(variables).issubset(["ZSD", "VHM0"]) testing for ZSD alone.
IsDepthlessZsdOnly(vs) == Range(vs) \subseteq {"ZSD"}

\* set(variables).issubset(["ZSD", "VHM0"])
IsDepthless(vs) == Range(vs) \subseteq {"ZSD", "VHM0"}

\* The returned dataset's axes and the number of warnings logged.
filter_dataset(d, vs, start, stop, dmin, dmax) ==
    LET time_sel ==
            IF start # stop
            THEN SelSlice(d.time, Timestamps(d.time), start, stop)
            ELSE SelLabel(d.time, get_time(d.time, start))
    IN  IF ~IsDepthless(vs)
        THEN [time |-> time_sel,
              depth |-> IF dmin # dmax
                        THEN SelSlice(d.depth, d.depth, dmin, dmax)
                        ELSE SelLabel(d.depth, get_depth(d.depth, dmin)),
              notice |-> 0]
        ELSE [time |-> time_sel, depth |-> d.depth, notice |-> 1]

\* ------------------------------------------------- specification: resolvers

DepthAxes == SeqsUpTo(0..MaxVal, MaxLen)

TimeAxes == {[i \in 1..Len(a) |-> Dt64(a[i])] : a \in DepthAxes}

Queries == -1..(MaxVal + 1)

\* The variables a specification does not use keep these values.
IdleRun ==
    /\ parameter = ""
    /\ variables = <<>>
    /\ start_date = 0
    /\ stop_date = 0

IdleWindow ==
    /\ depth_min = 0
    /\ depth_max = 0
    /\ ds = <<>>
    /\ out = <<>>
    /\ notice = 0

IdleMain ==
    /\ nrt_date = 0
    /\ urls = <<>>
    /\ ds_list = <<>>
    /\ log = <<>>
    /\ saved = 0

IdleMerge ==
    /\ archive = <<>>
    /\ all_ds = <<>>

IdleGrid ==
    /\ grid = <<>>
    /\ new_lon = <<>>
    /\ new_lat = <<>>
    /\ resample_ds = <<>>
    /\ gmrt = <<>>
    /\ altitude = <<>>

IdleResolve ==
    /\ fn = ""
    /\ data_axis = <<>>
    /\ given = 0
    /\ value = <<>>

InitResolve ==
    /\ pc = "call"
    /\ raised = ""
    /\ fn \in {"get_depth", "get_time"}
    /\ data_axis \in (IF fn = "get_depth" THEN DepthAxes ELSE TimeAxes)
    /\ given \in Queries
    /\ value = <<>>
    /\ IdleRun /\ IdleWindow /\ IdleMain /\ IdleMerge /\ IdleGrid

GetDepth ==
    /\ pc = "call"
    /\ fn = "get_depth"
    /\ value' = <<get_depth(data_axis, given)>>
    /\ pc' = "done"
    /\ UNCHANGED <<raised, fn, data_axis, given, runVars, windowVars,
                   mainVars, mergeVars, gridVars>>

GetTime ==
    /\ pc = "call"
    /\ fn = "get_time"
    /\ value' = <<get_time(data_axis, given)>>
    /\ pc' = "done"
    /\ UNCHANGED <<raised, fn, data_axis, given, runVars, windowVars,
                   mainVars, mergeVars, gridVars>>

NextResolve == GetDepth \/ GetTime

SpecResolve == InitResolve /\ [][NextResolve]_vars

\* Distance of axis element i to the query, as the called resolver measures it.
Dist(i) ==
    IF fn = "get_depth" THEN Abs(data_axis[i] - given)
    ELSE Abs(to_datetime(data_axis[i]) - given)

\* C1: once get_depth / get_time has returned, the returned value is an
\* element of the axis, no element of the axis is strictly closer to the
\* query than it, and it is the element at the smallest index among the
\* equally close ones.
C1_ResolveNearestFirst ==
    pc = "done" /\ fn \in {"get_depth", "get_time"} =>
        \E i \in 1..Len(data_axis) :
            /\ value = <<data_axis[i]>>
            /\ \A j \in 1..Len(data_axis) : Dist(j) >= Dist(i)
            /\ \A j \in 1..(i - 1) : Dist(j) > Dist(i)

\* A call returned on an axis holding two equally close elements, the one
\* at the smaller index differing from the other.
C1_Witness ==
    /\ pc = "done"
    /\ fn \in {"get_depth", "get_time"}
    /\ \E i, j \in 1..Len(data_axis) :
          /\ i < j
          /\ Dist(i) = Dist(j)
          /\ data_axis[i] # data_axis[j]
          /\ value = <<data_axis[i]>>

\* ---------------------------------------------- specification: filter_dataset

\* param_dict of __main__.
param_dict ==
    [arus |-> "sea_water_velocity", sst |-> "thetao", salinitas |-> "so",
     klorofil |-> "chl", ph |-> "ph", gelombang |-> "VHM0",
     kecerahan |-> "ZSD"]

\* The variables list __main__ builds for a parameter.
VariablesOf(p) == IF p = "arus" THEN <<"uo", "vo">> ELSE <<param_dict[p]>>

\* The strictly increasing non-empty sequences over S.
IncreasingAxes(S) ==
    {a \in SeqsUpTo(S, Cardinality(S)) :
        \A i \in 1..(Len(a) - 1) : a[i] < a[i + 1]}

DsTimeAxes ==
    {[i \in 1..Len(a) |-> Dt64(a[i])] : a \in IncreasingAxes(1..MaxTime)}

DsDepthAxes == IncreasingAxes(1..MaxDepth)

TimeQueries == 0..(MaxTime + 1)

DepthQueries == 0..(MaxDepth + 1)

\* One parameter per shape of variables list: two with-depth variables, one
\* with-depth variable, and each of the two depth-less variables.
SelectParameters == {"arus", "sst", "gelombang", "kecerahan"}

InitSelect ==
    /\ pc = "call"
    /\ raised = ""
    /\ IdleResolve
    /\ parameter \in SelectParameters
    /\ variables = VariablesOf(parameter)
    /\ start_date \in TimeQueries
    /\ stop_date \in TimeQueries
    /\ depth_min \in DepthQueries
    /\ depth_max \in DepthQueries
    /\ ds \in [time : DsTimeAxes, depth : DsDepthAxes]
    /\ out = <<>>
    /\ notice = 0
    /\ IdleMain /\ IdleMerge /\ IdleGrid

FilterDataset ==
    /\ pc = "call"
    /\ LET r == filter_dataset(ds, variables, start_date, stop_date,
                               depth_min, depth_max)
       IN  /\ out' = [time |-> r.time, depth |-> r.depth]
           /\ notice' = notice + r.notice
    /\ pc' = "done"
    /\ UNCHANGED <<raised, resolveVars, runVars, depth_min, depth_max, ds,
                   mainVars, mergeVars, gridVars>>

NextSelect == FilterDataset

SpecSelect == InitSelect /\ [][NextSelect]_vars

\* Every requested variable is ZSD or VHM0.
TaggedDepthless == \A i \in 1..Len(variables) : variables[i] \in {"ZSD", "VHM0"}

\* sel is the one-element selection holding the element of axis nearest to q
\* (keys[i] is the comparable value of axis[i]), the first one on a tie.
IsNearest(sel, axis, keys, q) ==
    \E i \in 1..Len(axis) :
        /\ sel = <<axis[i]>>
        /\ \A j \in 1..Len(axis) : Abs(keys[j] - q) >= Abs(keys[i] - q)
        /\ \A j \in 1..(i - 1) : Abs(keys[j] - q) > Abs(keys[i] - q)

\* sel is a contiguous run of axis and holds exactly the elements of axis
\* whose comparable value lies in [lo, hi].
IsWindow(sel, axis, keys, lo, hi) ==
    /\ \E a \in 1..(Len(axis) + 1), b \in 0..Len(axis) : sel = SubSeq(axis, a, b)
    /\ \A i \in 1..Len(axis) :
          (lo <= keys[i] /\ keys[i] <= hi) <=> (axis[i] \in Range(sel))
    /\ Len(sel) = Cardinality(Range(sel))

IsSelection(sel, axis, keys, lo, hi) ==
    IF lo = hi THEN IsNearest(sel, axis, keys, lo)
    ELSE IsWindow(sel, axis, keys, lo, hi)

\* C2: once filter_dataset has returned, on the time dimension and, for a
\* with-depth variable subset, on the depth dimension: with min = max the
\* result holds exactly one coordinate, the axis value nearest to the
\* requested value; with min # max it holds exactly the contiguous run of
\* the axis coordinates c with min <= c <= max, which is empty when the
\* window lies wholly outside the axis; and no error was raised.
C2_WindowSelection ==
    pc = "done" /\ out # <<>> =>
        /\ raised = ""
        /\ IsSelection(out.time, ds.time, Timestamps(ds.time),
                       start_date, stop_date)
        /\ ~TaggedDepthless =>
              IsSelection(out.depth, ds.depth, ds.depth, depth_min, depth_max)

\* A with-depth call returned with a time window lying wholly below the time
\* axis, selecting nothing, and a single depth that is not on the depth axis.
C2_Witness ==
    /\ pc = "done"
    /\ out # <<>>
    /\ ~TaggedDepthless
    /\ start_date < stop_date
    /\ stop_date < to_datetime(ds.time[1])
    /\ out.time = <<>>
    /\ depth_min = depth_max
    /\ depth_min \notin Range(ds.depth)
    /\ Len(out.depth) = 1

\* C3: once filter_dataset has returned: for a variable subset whose every
\* variable is ZSD or VHM0, one warning was logged, no error was raised, the
\* depth axis is the dataset's whole depth axis, and the call returns the
\* same result for every other depth_min / depth_max; for every other
\* variable subset no warning was logged and the depth axis is the selection
\* depth_min / depth_max ask for.
C3_DepthlessSkipsDepth ==
    pc = "done" /\ out # <<>> =>
        IF TaggedDepthless
        THEN /\ notice = 1
             /\ raised = ""
             /\ out.depth = ds.depth
             /\ \A d1, d2 \in DepthQueries :
                   filter_dataset(ds, variables, start_date, stop_date, d1, d2)
                       = [time |-> out.time, depth |-> out.depth,
                          notice |-> notice]
        ELSE /\ notice = 0
             /\ IsSelection(out.depth, ds.depth, ds.depth, depth_min, depth_max)

\* A depth-less call returned whose depth window would have cut the depth
\* axis had it been applied.
C3_Witness ==
    /\ pc = "done"
    /\ out # <<>>
    /\ TaggedDepthless
    /\ notice = 1
    /\ depth_min # depth_max
    /\ \E i \in 1..Len(ds.depth) : ds.depth[i] < depth_min \/ ds.depth[i] > depth_max
    /\ out.depth = ds.depth

\* ------------------------------------------------- __main__: control flow

\* Archive selection with the third branch testing stop_date > nrt_date.
select_urls_strict(start, stop, nrt) ==
    IF start < nrt /\ stop < nrt
    THEN [raised |-> FALSE, urls |-> <<"opendap_my">>]
    ELSE IF start >= nrt /\ stop > nrt
    THEN [raised |-> FALSE, urls |-> <<"opendap_nrt">>]
    ELSE IF start < nrt /\ stop > nrt
    THEN [raised |-> FALSE, urls |-> <<"opendap_my", "opendap_nrt">>]
    ELSE [raised |-> TRUE, urls |-> <<>>]

\* The if / elif / elif / else of the archive selection.
select_urls(start, stop, nrt) ==
    IF start < nrt /\ stop < nrt
    THEN [raised |-> FALSE, urls |-> <<"opendap_my">>]
    ELSE IF start >= nrt /\ stop > nrt
    THEN [raised |-> FALSE, urls |-> <<"opendap_nrt">>]
    ELSE IF start < nrt /\ stop >= nrt
    THEN [raised |-> FALSE, urls |-> <<"opendap_my", "opendap_nrt">>]
    ELSE [raised |-> TRUE, urls |-> <<>>]

\* Statement order with calculate_velocity ahead of the elevation surface.
AfterDeriveFirst(p) ==
    CASE p = "concat" -> "lattice"
      [] p = "lattice" -> "derive"
      [] p = "derive" -> "elevation"
      [] p = "elevation" -> "interp"
      [] p = "interp" -> "fill"
      [] p = "fill" -> "mask"
      [] p = "mask" -> "emit"

\* Statement order with the emit loop entered right after the gap fill.
AfterSkipMask(p) ==
    CASE p = "concat" -> "lattice"
      [] p = "lattice" -> "elevation"
      [] p = "elevation" -> "derive"
      [] p = "derive" -> "interp"
      [] p = "interp" -> "fill"
      [] p = "fill" -> "emit"
      [] p = "mask" -> "emit"

\* The statement that follows each statement of the straight-line part of
\* __main__, from the concatenation to the emit loop.
After(p) ==
    CASE p = "concat" -> "lattice"
      [] p = "lattice" -> "elevation"
      [] p = "elevation" -> "derive"
      [] p = "derive" -> "interp"
      [] p = "interp" -> "fill"
      [] p = "fill" -> "mask"
      [] p = "mask" -> "emit"

\* The statements an exception of a library call can leave __main__ from.
FailingSteps ==
    {"loop", "concat", "lattice", "elevation", "derive", "interp", "fill",
     "mask", "emit"}

Dates == 0..MaxDate

Init ==
    /\ pc = "validate"
    /\ raised = ""
    /\ IdleResolve /\ IdleWindow /\ IdleMerge /\ IdleGrid
    /\ parameter \in DOMAIN param_dict \cup {"suhu"}
    /\ variables = <<>>
    /\ start_date \in Dates
    /\ stop_date \in Dates
    /\ nrt_date \in Dates
    /\ urls = <<>>
    /\ ds_list = <<>>
    /\ log = <<>>
    /\ saved = 0

\* Lines 120-130: the parameter check and the variables list.
Validate ==
    /\ pc = "validate"
    /\ IF parameter \notin DOMAIN param_dict
       THEN /\ pc' = "aborted"
            /\ raised' = "parameter"
            /\ UNCHANGED variables
       ELSE /\ pc' = "select_urls"
            /\ variables' = VariablesOf(parameter)
            /\ UNCHANGED raised
    /\ UNCHANGED <<resolveVars, windowVars, parameter, start_date, stop_date,
                   mainVars, mergeVars, gridVars>>

\* Lines 132-163: the catalog row and the archive selection.
SelectArchives ==
    /\ pc = "select_urls"
    /\ LET r == select_urls(start_date, stop_date, nrt_date)
       IN  IF r.raised
           THEN /\ pc' = "aborted"
                /\ raised' = "time_order"
                /\ UNCHANGED urls
           ELSE /\ pc' = "loop"
                /\ urls' = r.urls
                /\ UNCHANGED raised
    /\ UNCHANGED <<resolveVars, windowVars, runVars, nrt_date, ds_list, log,
                   saved, mergeVars, gridVars>>

\* Lines 166-185: one iteration of the loop over urls: fetch, filter_dataset,
\* for gelombang the resampling, and the append.
LoopIter ==
    /\ pc = "loop"
    /\ Len(ds_list) < Len(urls)
    /\ ds_list' = Append(ds_list, urls[Len(ds_list) + 1])
    /\ log' = log \o <<"fetch", "select">>
                  \o (IF parameter = "gelombang" THEN <<"resample">> ELSE <<>>)
    /\ pc' = IF Len(ds_list') = Len(urls) THEN "concat" ELSE "loop"
    /\ UNCHANGED <<raised, resolveVars, windowVars, runVars, nrt_date, urls,
                   saved, mergeVars, gridVars>>

\* One statement of the straight-line part, logged under its own name.
Statement(p) ==
    /\ pc = p
    /\ log' = Append(log, p)
    /\ pc' = After(p)
    /\ UNCHANGED <<raised, resolveVars, windowVars, runVars, nrt_date, urls,
                   ds_list, saved, mergeVars, gridVars>>

\* Lines 187-190: xr.concat, or the single dataset.
Concat == Statement("concat")

\* Lines 192-195: res_deg, new_lon, new_lat.
Lattice == Statement("lattice")

\* Lines 197-201: the elevation surface is opened, renamed, interpolated onto
\* the lattice and turned into the sea mask.
Elevation == Statement("elevation")

\* Lines 203-206: calculate_velocity, for arus only.
Derive ==
    /\ pc = "derive"
    /\ log' = IF parameter = "arus" THEN Append(log, "derive") ELSE log
    /\ pc' = After("derive")
    /\ UNCHANGED <<raised, resolveVars, windowVars, runVars, nrt_date, urls,
                   ds_list, saved, mergeVars, gridVars>>

\* Line 208: all_ds.interp.
Interp == Statement("interp")

\* Lines 209-211: the two interpolate_na calls.
Fill == Statement("fill")

\* Line 213: resample_ds.where(altitude).
ApplyMask == Statement("mask")

\* Lines 220-264: one iteration of the loop over the time groups.
Emit ==
    /\ pc = "emit"
    /\ saved < MaxSlices
    /\ saved' = saved + 1
    /\ log' = Append(log, "emit")
    /\ UNCHANGED <<pc, raised, resolveVars, windowVars, runVars, nrt_date,
                   urls, ds_list, mergeVars, gridVars>>

\* The loop over the time groups is exhausted.
Finish ==
    /\ pc = "emit"
    /\ pc' = "done"
    /\ UNCHANGED <<raised, resolveVars, windowVars, runVars, mainVars,
                   mergeVars, gridVars>>

\* A library call of the current statement raises; nothing catches it.
Fail ==
    /\ pc \in FailingSteps
    /\ pc' = "aborted"
    /\ raised' = pc
    /\ UNCHANGED <<resolveVars, windowVars, runVars, mainVars, mergeVars,
                   gridVars>>

Next ==
    \/ Validate
    \/ SelectArchives
    \/ LoopIter
    \/ Concat
    \/ Lattice
    \/ Elevation
    \/ Derive
    \/ Interp
    \/ Fill
    \/ ApplyMask
    \/ Emit
    \/ Finish
    \/ Fail

Spec == Init /\ [][Next]_vars

Logged(e) == \E i \in 1..Len(log) : log[i] = e

CountLogged(e) == Cardinality({i \in 1..Len(log) : log[i] = e})

\* C7: a run whose parameter is not a key of param_dict, and a run with
\* start_date >= stop_date wherever the cutover lies, has stopped with the
\* configuration error once the check is behind it, with no archive fetched
\* and no figure saved.
C7_ConfigErrorOnOrdering ==
    /\ parameter \notin DOMAIN param_dict /\ pc # "validate" =>
          pc = "aborted" /\ raised = "parameter" /\ log = <<>> /\ saved = 0
    /\ (/\ parameter \in DOMAIN param_dict
        /\ start_date >= stop_date
        /\ pc \notin {"validate", "select_urls"}) =>
          pc = "aborted" /\ raised = "time_order" /\ log = <<>> /\ saved = 0

\* C8: a figure has been saved only if every archive was fetched and
\* selected and the concatenation, the lattice, the elevation mask, the
\* derivation (for arus), the interpolation, the gap fill and the masking
\* have all run without raising; a run that raised in any of them has
\* stopped and has saved no figure.
C8_NoPartialSuccess ==
    /\ saved > 0 =>
          /\ raised \in {"", "emit"}
          /\ Len(urls) >= 1
          /\ CountLogged("fetch") = Len(urls)
          /\ CountLogged("select") = Len(urls)
          /\ parameter = "gelombang" => CountLogged("resample") = Len(urls)
          /\ parameter = "arus" => Logged("derive")
          /\ \A e \in {"concat", "lattice", "elevation", "interp", "fill",
                        "mask"} : Logged(e)
    /\ raised \notin {"", "emit"} =>
          pc = "aborted" /\ saved = 0 /\ ~Logged("emit")

\* A run over two archives that finished after saving a figure.
C8_Witness ==
    /\ pc = "done"
    /\ Len(urls) = 2
    /\ saved >= 1

\* The stage of the pipeline each step belongs to: Select 1, Merge 2,
\* Derive 3, Regrid 4, Mask 5, Emit 6.
StageRank(e) ==
    CASE e \in {"fetch", "select"} -> 1
      [] e \in {"resample", "concat"} -> 2
      [] e = "derive" -> 3
      [] e \in {"lattice", "interp", "fill"} -> 4
      [] e \in {"elevation", "mask"} -> 5
      [] e = "emit" -> 6

\* The place of each step in the order of the statements of __main__.
StepRank(e) ==
    CASE e \in {"fetch", "select", "resample"} -> 1
      [] e = "concat" -> 2
      [] e = "lattice" -> 3
      [] e = "elevation" -> 4
      [] e = "derive" -> 5
      [] e = "interp" -> 6
      [] e = "fill" -> 7
      [] e = "mask" -> 8
      [] e = "emit" -> 9

\* C9 as stated: the stages run as the strict sequence Select, Merge,
\* Derive, Regrid, Mask, Emit: no step of a stage (the resampling and the
\* loading and interpolation of the elevation surface included) runs before
\* a step of an earlier stage that is still to come.
C9_StrictStageOrder ==
    \A i, j \in 1..Len(log) :
        i < j => StageRank(log[i]) <= StageRank(log[j])

\* C9 as amended: the steps run in the order of the statements: per archive
\* fetch, select and (for gelombang) resample, then concat, lattice,
\* elevation mask, derive, interp, fill, mask, then emit per time slice;
\* no step of the loop over the archives or of the emit loop is followed by
\* an earlier step, and each step between the two loops runs at most once.
C9_StatementOrder ==
    /\ \A i, j \in 1..Len(log) :
          i < j => /\ StepRank(log[i]) <= StepRank(log[j])
                   /\ log[i] = log[j] =>
                         log[i] \in {"fetch", "select", "resample", "emit"}
    /\ \A i \in 1..Len(log) :
          /\ log[i] = "select" => i > 1 /\ log[i - 1] = "fetch"
          /\ log[i] = "resample" => i > 1 /\ log[i - 1] = "select"
          /\ (log[i] = "select" /\ parameter = "gelombang" /\ i < Len(log))
                => log[i + 1] = "resample"

\* A finished run for arus over two archives that saved a figure: the
\* elevation mask was built before the derivation, the interpolation after.
C9_Witness ==
    /\ pc = "done"
    /\ parameter = "arus"
    /\ Len(urls) = 2
    /\ saved >= 1
    /\ Logged("derive")

\* C10: once the archive selection is behind a run with a valid parameter:
\* with start_date < stop_date no error was raised and the list is the
\* historical archive alone when stop_date < nrt_date, the near-real-time
\* archive alone when start_date >= nrt_date, and the historical followed
\* by the near-real-time archive when start_date < nrt_date <= stop_date,
\* exactly one of the three being the case; the list is not empty unless the
\* error was raised, and the error is raised only when
\* stop_date <= nrt_date <= start_date.
C10_ArchiveSelection ==
    parameter \in DOMAIN param_dict /\ pc \notin {"validate", "select_urls"} =>
        /\ start_date < stop_date =>
              /\ raised # "time_order"
              /\ stop_date < nrt_date => urls = <<"opendap_my">>
              /\ start_date >= nrt_date => urls = <<"opendap_nrt">>
              /\ start_date < nrt_date /\ nrt_date <= stop_date =>
                    urls = <<"opendap_my", "opendap_nrt">>
              /\ Cardinality({b \in {
                      <<1, stop_date < nrt_date>>,
                      <<2, start_date >= nrt_date>>,
                      <<3, start_date < nrt_date /\ nrt_date <= stop_date>>} :
                        b[2]}) = 1
        /\ raised # "time_order" => urls # <<>>
        /\ raised = "time_order" =>
              stop_date <= nrt_date /\ nrt_date <= start_date /\ urls = <<>>

\* A run whose window ends exactly on the cutover instant: both archives
\* were selected, the historical one first.
C10_Witness ==
    /\ pc = "loop"
    /\ start_date < nrt_date
    /\ nrt_date = stop_date
    /\ urls = <<"opendap_my", "opendap_nrt">>

\* --------------------------------- __main__: the time axis through the merge

\* The depth axis of an archive: the surface level alone.
SurfaceDepths == <<0>>

\* ds.resample(time="1M").mean() on a time axis: one label, the end of the
\* period, for every period from that of the first to that of the last
\* instant.  With a single selected instant the dataset has no time
\* dimension to resample along; what the call does on an empty time axis is
\* left open (it raises, or it returns an empty axis).
resample(axis, scalar_time) ==
    IF scalar_time
    THEN {[raised |-> TRUE, time |-> <<>>]}
    ELSE IF axis = <<>>
    THEN {[raised |-> TRUE, time |-> <<>>], [raised |-> FALSE, time |-> <<>>]}
    ELSE LET first == to_datetime(axis[1]) \div Period
             last == to_datetime(axis[Len(axis)]) \div Period
         IN  {[raised |-> FALSE,
               time |-> [k \in 1..(last - first + 1) |->
                            Dt64((first + k - 1) * Period + Period - 1)]]}

\* xr.concat(ds_list, dim="time") for more than one dataset, else ds_list[0].
RECURSIVE concat(_)
concat(list) ==
    IF list = <<>> THEN <<>> ELSE Head(list) \o concat(Tail(list))

merge(list) == IF Len(list) > 1 THEN concat(list) ELSE list[1]

ArchiveAxes ==
    {[i \in 1..Len(a) |-> Dt64(a[i])] : a \in IncreasingAxes(Dates)}

InitMerge ==
    /\ pc = "loop"
    /\ raised = ""
    /\ IdleResolve /\ IdleWindow /\ IdleGrid
    /\ parameter \in {"arus", "gelombang"}
    /\ variables = VariablesOf(parameter)
    /\ start_date \in Dates
    /\ stop_date \in Dates
    /\ nrt_date \in Dates
    /\ ~select_urls(start_date, stop_date, nrt_date).raised
    /\ urls = select_urls(start_date, stop_date, nrt_date).urls
    /\ archive \in [{"opendap_my", "opendap_nrt"} -> ArchiveAxes]
    /\ ds_list = <<>>
    /\ all_ds = <<>>
    /\ log = <<>>
    /\ saved = 0

\* Lines 166-185: one iteration of the loop over urls, on the time axis.
MergeLoopIter ==
    /\ pc = "loop"
    /\ Len(ds_list) < Len(urls)
    /\ LET url == urls[Len(ds_list) + 1]
           sel == filter_dataset([time |-> archive[url], depth |-> SurfaceDepths],
                                 variables, start_date, stop_date,
                                 depth_min, depth_max).time
           results == IF parameter = "gelombang"
                      THEN resample(sel, start_date = stop_date)
                      ELSE {[raised |-> FALSE, time |-> sel]}
       IN  \E r \in results :
              IF r.raised
              THEN /\ pc' = "aborted"
                   /\ raised' = "loop"
                   /\ UNCHANGED ds_list
              ELSE /\ ds_list' = Append(ds_list, r.time)
                   /\ pc' = IF Len(ds_list') = Len(urls) THEN "concat" ELSE "loop"
                   /\ UNCHANGED raised
    /\ UNCHANGED <<resolveVars, windowVars, runVars, nrt_date, urls, log, saved,
                   archive, all_ds, gridVars>>

\* Lines 187-190: the concatenation along time.
MergeConcat ==
    /\ pc = "concat"
    /\ all_ds' = merge(ds_list)
    /\ pc' = "merged"
    /\ UNCHANGED <<raised, resolveVars, windowVars, runVars, mainVars, archive,
                   gridVars>>

NextMerge == MergeLoopIter \/ MergeConcat

SpecMerge == InitMerge /\ [][NextMerge]_vars

\* C4: once the datasets are merged: with one input the merged time axis is
\* that of the input; with the two archives of a window spanning the cutover
\* its length is the sum of the lengths of the two inputs and it is strictly
\* increasing, so that no time value occurs twice.
C4_MergedTimeAxis ==
    pc = "merged" =>
        /\ Len(ds_list) = 1 => all_ds = ds_list[1]
        /\ Len(ds_list) = 2 =>
              /\ start_date < nrt_date /\ nrt_date <= stop_date
              /\ Len(all_ds) = Len(ds_list[1]) + Len(ds_list[2])
              /\ \A i, j \in 1..Len(all_ds) :
                    i < j => to_datetime(all_ds[i]) < to_datetime(all_ds[j])

\* ------------------------------------------------------------ grid values

NaN == [nan |-> TRUE, n |-> 0, d |-> 1]

RECURSIVE Gcd(_, _)
Gcd(a, b) == IF b = 0 THEN a ELSE Gcd(b, a % b)

\* The number n / d (d > 0), in lowest terms.
Num(n, d) ==
    LET g == Gcd(Abs(n), d)
    IN  [nan |-> FALSE, n |-> n \div g, d |-> d \div g]

\* Linear interpolation between ylo and yhi, w of the way along a gap g;
\* a missing end point makes the result missing, whatever its weight.
Lin(ylo, yhi, w, g) ==
    IF ylo.nan \/ yhi.nan THEN NaN
    ELSE Num(ylo.n * yhi.d * (g - w) + yhi.n * ylo.d * w, ylo.d * yhi.d * g)

\* scipy's interp1d(xs, ys, kind="linear", bounds_error=False) at x: the
\* bracket is found with searchsorted (side left) clipped to 1..n-1, so an x
\* on a node other than the first is bracketed from below; outside the axis
\* the result is missing.
Interp1(xs, ys, x) ==
    LET n == Len(xs)
        k == Cardinality({i \in 1..n : xs[i] < x})
        hi0 == IF k < 1 THEN 1 ELSE IF k > n - 1 THEN n - 1 ELSE k
    IN  IF x < xs[1] \/ x > xs[n] THEN NaN
        ELSE Lin(ys[hi0], ys[hi0 + 1], x - xs[hi0], xs[hi0 + 1] - xs[hi0])

\* g.interp(longitude=nlon, latitude=nlat): linear, one dimension after the
\* other.  val[i][j] is the value at latitude i, longitude j.
interp(g, nlon, nlat) ==
    LET along_lon == [i \in 1..Len(g.lat) |->
                        [j \in 1..Len(nlon) |-> Interp1(g.lon, g.val[i], nlon[j])]]
    IN  [i \in 1..Len(nlat) |->
            [j \in 1..Len(nlon) |->
                Interp1(g.lat, [a \in 1..Len(g.lat) |-> along_lon[a][j]], nlat[i])]]

\* np.arange(start, stop, step) giving one more element when stop - start is
\* a multiple of step, that is, including stop.
arange_closed(start, stop, step) ==
    [k \in 1..((stop - start) \div step + 1) |-> start + (k - 1) * step]

\* np.arange(start, stop, step): ceil((stop - start) / step) elements.
arange(start, stop, step) ==
    [k \in 1..((stop - start + step - 1) \div step) |-> start + (k - 1) * step]

\* The valid elements of a line, as indices in increasing order.
RECURSIVE ValidIndices(_, _)
ValidIndices(ys, i) ==
    IF i > Len(ys) THEN <<>>
    ELSE (IF ys[i].nan THEN <<>> ELSE <<i>>) \o ValidIndices(ys, i + 1)

\* A gap fill that leaves the two ends of a line alone.
fill_line_interior(coords, ys) ==
    LET v == ValidIndices(ys, 1)
        nearest(x) ==
            v[Cardinality({m \in 1..(Len(v) - 1) :
                              coords[v[m]] + coords[v[m + 1]] < 2 * x}) + 1]
    IN  IF v = <<>> \/ Len(v) = Len(ys) THEN ys
        ELSE [p \in 1..Len(ys) |->
                 IF ys[p].nan /\ p # 1 /\ p # Len(ys)
                 THEN ys[nearest(coords[p])] ELSE ys[p]]

\* interpolate_na(method="nearest", fill_value="extrapolate") on one line: a
\* line with no valid or no missing element is returned as it is; otherwise
\* interp1d(kind="nearest") over the valid elements fills each missing one
\* (searchsorted, side left, on the midpoints: a tie goes to the lower one).
fill_line(coords, ys) ==
    LET v == ValidIndices(ys, 1)
        nearest(x) ==
            v[Cardinality({m \in 1..(Len(v) - 1) :
                              coords[v[m]] + coords[v[m + 1]] < 2 * x}) + 1]
    IN  IF v = <<>> \/ Len(v) = Len(ys) THEN ys
        ELSE [p \in 1..Len(ys) |->
                 IF ys[p].nan THEN ys[nearest(coords[p])] ELSE ys[p]]

\* interpolate_na along longitude, then along latitude.
interpolate_na(f, nlon, nlat) ==
    LET rows == [i \in 1..Len(nlat) |-> fill_line(nlon, f[i])]
        cols == [j \in 1..Len(nlon) |->
                    fill_line(nlat, [i \in 1..Len(nlat) |-> rows[i][j]])]
    IN  [i \in 1..Len(nlat) |-> [j \in 1..Len(nlon) |-> cols[j][i]]]

\* ------------------------------------------------- specification: regridder

Min(a) == a[1]

Max(a) == a[Len(a)]

\* The value of the field at a node where it is not missing.
Field(x, y) == Num(1 + x + 2 * y, 1)

\* The source grids: increasing axes and a field that is missing at some of
\* the nodes.
\* The grids on the axes lo and la whose field is missing at the nodes of
\* one of the sets in M.
GridsMissing(lo, la, M) ==
    {[lon |-> lo, lat |-> la,
      val |-> [i \in 1..Len(la) |-> [j \in 1..Len(lo) |->
                  IF <<i, j>> \in missing THEN NaN ELSE Field(lo[j], la[i])]]] :
        missing \in M}

GridsOn(lo, la) ==
    GridsMissing(lo, la, SUBSET ((1..Len(la)) \X (1..Len(lo))))

SourceGrids ==
    UNION {GridsOn(a[1], a[2]) :
              a \in {b \in IncreasingAxes(0..MaxLon) \X IncreasingAxes(0..MaxLat) :
                        Len(b[1]) * Len(b[2]) <= MaxNodes}}

InitRegrid ==
    /\ pc = "lattice"
    /\ raised = ""
    /\ IdleResolve /\ IdleWindow /\ IdleRun /\ IdleMain /\ IdleMerge
    /\ grid \in SourceGrids
    /\ new_lon = <<>>
    /\ new_lat = <<>>
    /\ resample_ds = <<>>
    /\ gmrt = <<>>
    /\ altitude = <<>>

\* Lines 192-195: the target lattice.
RegridLattice ==
    /\ pc = "lattice"
    /\ new_lon' = arange(Min(grid.lon), Max(grid.lon), Res)
    /\ new_lat' = arange(Min(grid.lat), Max(grid.lat), Res)
    /\ pc' = "interp"
    /\ UNCHANGED <<raised, resolveVars, windowVars, runVars, mainVars,
                   mergeVars, grid, resample_ds, gmrt, altitude>>

\* Line 208: the interpolation onto the lattice.  An axis with a single
\* point has nothing to interpolate between: the call raises, or returns
\* the (empty) result.
RegridInterp ==
    /\ pc = "interp"
    /\ \/ /\ Len(grid.lon) < 2 \/ Len(grid.lat) < 2
          /\ pc' = "aborted"
          /\ raised' = "interp"
          /\ UNCHANGED resample_ds
       \/ /\ resample_ds' =
                IF Len(grid.lon) < 2 \/ Len(grid.lat) < 2
                THEN [i \in 1..Len(new_lat) |-> [j \in 1..Len(new_lon) |-> NaN]]
                ELSE interp(grid, new_lon, new_lat)
          /\ pc' = "fill"
          /\ UNCHANGED raised
    /\ UNCHANGED <<resolveVars, windowVars, runVars, mainVars, mergeVars,
                   grid, new_lon, new_lat, gmrt, altitude>>

\* Lines 209-211: the gap fill.
RegridFill ==
    /\ pc = "fill"
    /\ resample_ds' = interpolate_na(resample_ds, new_lon, new_lat)
    /\ pc' = "mask"
    /\ UNCHANGED <<raised, resolveVars, windowVars, runVars, mainVars,
                   mergeVars, grid, new_lon, new_lat, gmrt, altitude>>

NextRegrid == RegridLattice \/ RegridInterp \/ RegridFill

SpecRegrid == InitRegrid /\ [][NextRegrid]_vars

AxisMin(a) == CHOOSE m \in Range(a) : \A x \in Range(a) : m <= x

AxisMax(a) == CHOOSE m \in Range(a) : \A x \in Range(a) : m >= x

\* new starts at the minimum of src, steps by Res, stays below the maximum
\* of src and leaves out no such point.
IsLattice(new, src) ==
    /\ \A k \in 1..Len(new) :
          /\ new[k] = AxisMin(src) + (k - 1) * Res
          /\ AxisMin(src) <= new[k]
          /\ new[k] < AxisMax(src)
    /\ AxisMax(src) > AxisMin(src) => Len(new) >= 1 /\ new[1] = AxisMin(src)
    /\ AxisMin(src) + Len(new) * Res >= AxisMax(src)

\* Source interval lo of the axis xs is the one x is interpolated in.
Brackets(xs, x, lo) ==
    \/ xs[lo] < x /\ x <= xs[lo + 1]
    \/ lo = 1 /\ x = xs[1]

\* The four source nodes lattice cell <<i, j>> is interpolated from are all
\* non-missing.
Resolvable(i, j) ==
    \E a \in 1..(Len(grid.lat) - 1), b \in 1..(Len(grid.lon) - 1) :
        /\ Brackets(grid.lat, new_lat[i], a)
        /\ Brackets(grid.lon, new_lon[j], b)
        /\ \A c \in {a, a + 1}, e \in {b, b + 1} : ~grid.val[c][e].nan

Cells == (1..Len(new_lat)) \X (1..Len(new_lon))

EdgeCells ==
    {c \in Cells : c[1] \in {1, Len(new_lat)} \/ c[2] \in {1, Len(new_lon)}}

is_sea_or_shore(v) == ~v.nan /\ v.n <= 0

\* altitude < 0 on one cell: a comparison with a missing value is False.
is_sea(v) == ~v.nan /\ v.n < 0

\* f.where(cond): the value where cond holds, missing elsewhere.
where(f, cond) ==
    [i \in DOMAIN f |-> [j \in DOMAIN f[i] |->
        IF cond[i][j] THEN f[i][j] ELSE NaN]]

\* The elevation surfaces: two longitudes anywhere in the domain, the two
\* extreme latitudes, and an altitude at each of the four nodes.
Surfaces ==
    {[lon |-> lo, lat |-> <<0, MaxLat>>,
      val |-> [i \in 1..2 |-> [j \in 1..2 |-> Num(h[i][j], 1)]]] :
        lo \in {a \in IncreasingAxes(0..MaxLon) : Len(a) = 2},
        h \in [1..2 -> [1..2 -> (-MaxAltitude)..MaxAltitude]]}

\* The state after line 195, for a source grid over the whole domain, or
\* over a single longitude of it, with no value or one corner value missing.
InitMask ==
    /\ pc = "elevation"
    /\ raised = ""
    /\ IdleResolve /\ IdleWindow /\ IdleRun /\ IdleMain /\ IdleMerge
    /\ grid \in GridsMissing(<<0, MaxLon>>, <<0, MaxLat>>, {{}, {<<1, 1>>}})
                 \cup GridsMissing(<<0>>, <<0, MaxLat>>, {{}, {<<1, 1>>}})
    /\ new_lon = arange(Min(grid.lon), Max(grid.lon), Res)
    /\ new_lat = arange(Min(grid.lat), Max(grid.lat), Res)
    /\ resample_ds = <<>>
    /\ gmrt \in Surfaces
    /\ altitude = <<>>

\* Lines 197-201: the elevation surface is interpolated onto the lattice
\* (its axes renamed to longitude / latitude) and compared with 0.
MaskElevation ==
    /\ pc = "elevation"
    /\ gmrt' = [lon |-> new_lon, lat |-> new_lat,
                val |-> interp(gmrt, new_lon, new_lat)]
    /\ altitude' = [i \in 1..Len(new_lat) |-> [j \in 1..Len(new_lon) |->
                        is_sea(gmrt'.val[i][j])]]
    /\ pc' = "interp"
    /\ UNCHANGED <<raised, resolveVars, windowVars, runVars, mainVars,
                   mergeVars, grid, new_lon, new_lat, resample_ds>>

\* Line 213: the mask is applied.
MaskApply ==
    /\ pc = "mask"
    /\ resample_ds' = where(resample_ds, altitude)
    /\ pc' = "masked"
    /\ UNCHANGED <<raised, resolveVars, windowVars, runVars, mainVars,
                   mergeVars, grid, new_lon, new_lat, gmrt, altitude>>

NextMask == MaskElevation \/ RegridInterp \/ RegridFill \/ MaskApply

SpecMask == InitMask /\ [][NextMask]_vars

SameShape(f, g) ==
    /\ DOMAIN f = DOMAIN g
    /\ \A i \in DOMAIN f : DOMAIN f[i] = DOMAIN g[i]

\* C5 as stated: the step that applies the mask keeps the shape of the
\* grid, makes the value of every lattice cell whose interpolated elevation
\* is >= 0 missing, and leaves the value of every other cell, the cells
\* whose interpolated elevation is itself missing included, as it was.
C5_MaskByElevationSign ==
    [][pc = "mask" /\ pc' = "masked" =>
          /\ SameShape(resample_ds', resample_ds)
          /\ \A c \in Cells :
                LET h == gmrt.val[c[1]][c[2]]
                IN  IF ~h.nan /\ h.n >= 0
                    THEN resample_ds'[c[1]][c[2]].nan
                    ELSE resample_ds'[c[1]][c[2]] = resample_ds[c[1]][c[2]]]_vars

\* C5 as amended: the step that applies the mask keeps the shape of the
\* grid, leaves the value of every lattice cell whose interpolated elevation
\* is < 0 as it was, and makes the value of every other cell missing: the
\* cells whose interpolated elevation is >= 0 and the cells whose
\* interpolated elevation is itself missing.
C5_MaskBySeaCells ==
    [][pc = "mask" /\ pc' = "masked" =>
          /\ SameShape(resample_ds', resample_ds)
          /\ \A c \in Cells :
                LET h == gmrt.val[c[1]][c[2]]
                IN  IF ~h.nan /\ h.n < 0
                    THEN resample_ds'[c[1]][c[2]] = resample_ds[c[1]][c[2]]
                    ELSE resample_ds'[c[1]][c[2]].nan]_vars

\* The mask was applied to a grid with values on a lattice holding a sea
\* cell that kept its value, a cell of elevation 0 and a cell the elevation
\* surface does not cover, both now missing.
C5_Witness ==
    /\ pc = "masked"
    /\ \E c \in Cells :
          /\ is_sea(gmrt.val[c[1]][c[2]])
          /\ ~resample_ds[c[1]][c[2]].nan
    /\ \E c \in Cells :
          /\ ~gmrt.val[c[1]][c[2]].nan
          /\ gmrt.val[c[1]][c[2]].n = 0
          /\ resample_ds[c[1]][c[2]].nan
    /\ \E c \in Cells :
          /\ gmrt.val[c[1]][c[2]].nan
          /\ resample_ds[c[1]][c[2]].nan

====
